---- MODULE Spec2Model ----
(***************************************************************************)
(* A model of peret, the BTS -> AED-TEI vocabulary merge and consistency   *)
(* engine: the registry extraction (providers), the relation graph repair  *)
(* (pre.py, driven by proc.patch_vocab), the merge of registry properties  *)
(* into the target XML tree (proc.TargetDef.update with the has/add pairs  *)
(* of inserters.py) and the date range validation (validate/dates.py).     *)
(*                                                                         *)
(* Python values are modelled as follows.                                  *)
(*   str    data strings (ids, relation targets, translations, date        *)
(*          boundaries) are sequences of one-character strings, so that    *)
(*          strip(), the "tla" prefix and int() are computed; qualifiers   *)
(*          (predicates, languages, "beginning"/"end"), tag names and      *)
(*          attribute names are only ever compared and are TLA+ strings.   *)
(*   dict   a sequence of records [k, v] with pairwise distinct keys, in   *)
(*          insertion order (the iteration order of a Python dict).        *)
(*   list   a sequence.                                                    *)
(***************************************************************************)
EXTENDS Integers, Sequences, FiniteSets, TLC

VARIABLES
    pc,         \* the position of the run
    dump,       \* the records of the dump as loaded (bts.load_vocabulary)
    vocab,      \* the registry: dict id -> entry (dict property -> dict qualifier -> list)
    functions,  \* patch_vocab's list of passes
    ei,         \* patch_vocab: index of the registry entry being patched
    fi,         \* patch_vocab: index of the pass applied next to that entry
    budget,     \* number of dump items that may still be extracted
    vocab0,     \* the registry as extracted, before patch_vocab (history)
    log,        \* the passes applied so far, as <<pass, id>> (history)
    tree,       \* the target XML document (TargetDef._doc)
    insertion,  \* the PropertyInsertion of the run: its property_name
    run,        \* which call of TargetDef.update is running (1, 2)
    work,       \* TargetDef.update: the (element, qualifier, value) triples it iterates
    w,          \* TargetDef.update: index of the triple handled next
    stats,      \* TargetDef.update: _stats
    tree0,      \* the document as loaded (history)
    tree1,      \* the document after the first update (history)
    file,       \* the XML file of the target: the document last saved to it
    vi,         \* find_invalid: index of the dated category checked next
    invalid,    \* find_invalid: the categories found invalid so far
    given,      \* _strip_id: the string it is called with (aedid)
    stripped    \* _strip_id: the string it returned

repairVars == <<functions, ei, fi, log, dump>>
mergeVars == <<insertion, run, work, w, stats, tree0, tree1, file>>
validateVars == <<vi, invalid>>
idVars == <<given, stripped>>
vars == <<pc, vocab, budget, vocab0, tree, repairVars, mergeVars, validateVars, idVars>>

----------------------------------------------------------------------------
(* Bounds and input alphabets *)

\* dump items (relations) extracted per run
MaxEdges == 2

\* the ids of the dump records, in dump order
DumpOrder == << <<"1">>, <<"2">>, <<"3">> >>

\* an id no dump record carries
UnknownId == <<"9">>

\* the relation types found in dump records; "bogus" has no inverse
DataPredicates == {"partOf", "contains", "bogus"}

----------------------------------------------------------------------------
(* Python dict *)

Range(s) == {s[i] : i \in 1..Len(s)}

DictHas(d, k) == \E i \in 1..Len(d) : d[i].k = k

DictGet(d, k, default) ==
    IF DictHas(d, k) THEN d[CHOOSE i \in 1..Len(d) : d[i].k = k].v ELSE default

DictPut(d, k, v) ==
    IF DictHas(d, k)
    THEN [i \in 1..Len(d) |-> IF d[i].k = k THEN [k |-> k, v |-> v] ELSE d[i]]
    ELSE Append(d, [k |-> k, v |-> v])

DictKeys(d) == {d[i].k : i \in 1..Len(d)}

----------------------------------------------------------------------------
(* providers/__init__.py *)

\* the truth value of a str or None
NoneQ == "\\None"
NoneV == <<"None">>
Truthy(x) == x # "" /\ x # NoneQ
TruthyV(x) == x # <<>> /\ x # NoneV

\* mutant: the value is registered whether or not qualifier and value are there
register_unconditionally(registry, qualifier, value) ==
    DictPut(registry, qualifier, Append(DictGet(registry, qualifier, <<>>), value))

register_qualified_property(registry, qualifier, value) ==
    IF Truthy(qualifier) /\ TruthyV(value)
    THEN DictPut(registry, qualifier, Append(DictGet(registry, qualifier, <<>>), value))
    ELSE registry

----------------------------------------------------------------------------
(* providers/bts.py: extraction of relations *)

\* a dump record's relation items: [type, objectId]
RECURSIVE RegisterRelations(_, _)
RegisterRelations(res, items) ==
    IF items = <<>> THEN res
    ELSE RegisterRelations(
            register_qualified_property(res, Head(items).type, Head(items).objectId),
            Tail(items))

\* a field of a dump record that holds a list: the list, or null
List(items) == [null |-> FALSE, items |-> items]
Null == [null |-> TRUE, items |-> <<>>]

\* dict.get(key, default) on a dump record
RecordGet(bts_entry, key, default) ==
    IF key \in DOMAIN bts_entry THEN bts_entry[key] ELSE default

\* iterating over null is a TypeError
get_relations(bts_entry) ==
    LET relations == RecordGet(bts_entry, "relations", List(<<>>))
    IN  IF relations.null THEN [raised |-> TRUE, v |-> <<>>]
        ELSE [raised |-> FALSE,
              v |-> << [k |-> "relations",
                        v |-> RegisterRelations(<<>>, relations.items)] >>]

----------------------------------------------------------------------------
(* pre.py: the relation graph repair passes *)

INVERSE ==
    << [k |-> "partOf", v |-> "contains"], [k |-> "contains", v |-> "partOf"],
       [k |-> "predecessor", v |-> "successor"], [k |-> "successor", v |-> "predecessor"],
       [k |-> "rootOf", v |-> "root"], [k |-> "root", v |-> "rootOf"],
       [k |-> "referencedBy", v |-> "referencing"], [k |-> "referencing", v |-> "referencedBy"] >>

\* mutant: nothing is filtered out
FilterNothing(values, wlist) == values

\* mutant: a list with an unknown id is emptied
FilterAllOrNothing(values, wlist) ==
    IF \A i \in 1..Len(values) : DictHas(wlist, values[i]) THEN values ELSE <<>>

Filter(values, wlist) ==
    SelectSeq(values, LAMBDA value : DictHas(wlist, value))

_verify_relations(entry_id, entry, wlist) ==
    LET relations == DictGet(entry, "relations", <<>>)
        verified == [i \in 1..Len(relations) |->
                        [k |-> relations[i].k, v |-> Filter(relations[i].v, wlist)]]
    IN  [entry |-> DictPut(entry, "relations", verified),
         wlist |-> wlist, raised |-> FALSE]

\* mutant: the inverse edge is registered under the predicate itself
RECURSIVE MirrorValuesSamePredicate(_, _, _, _)
MirrorValuesSamePredicate(entry_id, predicate, values, r) ==
    IF values = <<>> \/ r.raised THEN r
    ELSE LET value == Head(values) IN
         IF value = entry_id
         THEN MirrorValuesSamePredicate(entry_id, predicate, Tail(values), r)
         ELSE IF ~DictHas(INVERSE, predicate)
         THEN [r EXCEPT !.raised = TRUE]
         ELSE LET target == DictGet(r.wlist, value, <<>>)
                  rels == register_qualified_property(
                              DictGet(target, "relations", <<>>), predicate, entry_id)
                  target2 == DictPut(target, "relations", rels)
              IN  MirrorValuesSamePredicate(entry_id, predicate, Tail(values),
                      [r EXCEPT !.wlist = IF DictHas(r.wlist, value)
                                          THEN DictPut(r.wlist, value, target2)
                                          ELSE r.wlist])

\* mutant: an unknown target gets a registry entry (wlist.setdefault(value, {}))
RECURSIVE MirrorValuesSetdefault(_, _, _, _)
MirrorValuesSetdefault(entry_id, predicate, values, r) ==
    IF values = <<>> \/ r.raised THEN r
    ELSE LET value == Head(values) IN
         IF value = entry_id
         THEN MirrorValuesSetdefault(entry_id, predicate, Tail(values), r)
         ELSE IF ~DictHas(INVERSE, predicate)
         THEN [r EXCEPT !.raised = TRUE]
         ELSE LET target == DictGet(r.wlist, value, <<>>)
                  rels == register_qualified_property(
                              DictGet(target, "relations", <<>>),
                              DictGet(INVERSE, predicate, NoneQ), entry_id)
                  target2 == DictPut(target, "relations", rels)
              IN  MirrorValuesSetdefault(entry_id, predicate, Tail(values),
                      [r EXCEPT !.wlist = DictPut(r.wlist, value, target2)])

\* the inner loop of _mirror_relations over the values of one predicate;
\* r is [wlist, raised]
RECURSIVE MirrorValues(_, _, _, _)
MirrorValues(entry_id, predicate, values, r) ==
    IF values = <<>> \/ r.raised THEN r
    ELSE LET value == Head(values) IN
         IF value = entry_id
         THEN MirrorValues(entry_id, predicate, Tail(values), r)
         ELSE IF ~DictHas(INVERSE, predicate)
         THEN [r EXCEPT !.raised = TRUE]
         ELSE LET target == DictGet(r.wlist, value, <<>>)
                  rels == register_qualified_property(
                              DictGet(target, "relations", <<>>),
                              DictGet(INVERSE, predicate, NoneQ), entry_id)
                  target2 == DictPut(target, "relations", rels)
              IN  MirrorValues(entry_id, predicate, Tail(values),
                      [r EXCEPT !.wlist = IF DictHas(r.wlist, value)
                                          THEN DictPut(r.wlist, value, target2)
                                          ELSE r.wlist])

\* the outer loop of _mirror_relations over the entry's predicates
RECURSIVE MirrorPredicates(_, _, _)
MirrorPredicates(entry_id, relations, r) ==
    IF relations = <<>> \/ r.raised THEN r
    ELSE MirrorPredicates(entry_id, Tail(relations),
            MirrorValues(entry_id, Head(relations).k, Head(relations).v, r))

_mirror_relations(entry_id, entry, wlist) ==
    LET r == MirrorPredicates(entry_id, DictGet(entry, "relations", <<>>),
                              [wlist |-> wlist, raised |-> FALSE])
    IN  [entry |-> entry, wlist |-> r.wlist, raised |-> r.raised]

----------------------------------------------------------------------------
(* providers/bts.py: the dates of thesaurus entries that the dump lacks *)

missing_dateranges ==
    << [k |-> <<"M", "X", "W", "X", "4", "W", "G", "4", "3", "Z", "H", "I", "7", "D", "4", "R", "L", "T", "G", "K", "3", "I", "B", "G", "X", "Y">>,
        v |-> << <<"-", "5", "5", "0", "0">>, <<" ", " ", "9", "0", "0">> >>],
       [k |-> <<"F", "K", "L", "X", "K", "T", "C", "5", "R", "J", "F", "S", "Z", "C", "B", "D", "U", "5", "H", "W", "K", "6", "K", "H", "G", "U">>,
        v |-> << <<"-", "5", "5", "0", "0">>, <<" ", " ", "9", "0", "0">> >>],
       [k |-> <<"G", "T", "I", "H", "A", "L", "K", "Z", "W", "J", "F", "T", "N", "C", "L", "Z", "3", "I", "T", "X", "K", "7", "H", "B", "X", "A">>,
        v |-> << <<"-", "5", "5", "0", "0">>, <<" ", " ", "9", "0", "0">> >>],
       [k |-> <<"D", "U", "V", "G", "W", "T", "7", "G", "S", "R", "C", "K", "D", "M", "5", "L", "F", "T", "G", "U", "6", "M", "Z", "3", "G", "Y">>,
        v |-> << <<"-", "5", "5", "0", "0">>, <<" ", " ", "6", "4", "1">> >>],
       [k |-> <<"6", "Y", "A", "A", "R", "2", "W", "R", "I", "5", "F", "6", "B", "L", "P", "6", "Y", "M", "W", "3", "G", "6", "7", "P", "6", "Q">>,
        v |-> << <<"-", "5", "5", "0", "0">>, <<"-", "5", "0", "0", "0">> >>],
       [k |-> <<"F", "M", "N", "B", "F", "X", "W", "G", "A", "5", "C", "2", "T", "E", "X", "F", "R", "D", "X", "O", "G", "X", "B", "E", "P", "E">>,
        v |-> << <<"-", "5", "0", "0", "0">>, <<"-", "3", "9", "0", "0">> >>],
       [k |-> <<"P", "5", "F", "2", "W", "O", "P", "6", "Y", "Z", "G", "B", "H", "K", "5", "K", "C", "S", "C", "P", "2", "U", "X", "J", "H", "M">>,
        v |-> << <<"-", "3", "9", "0", "0">>, <<"-", "3", "6", "5", "0">> >>],
       [k |-> <<"W", "L", "I", "R", "C", "H", "Q", "3", "D", "R", "F", "4", "Z", "O", "T", "I", "R", "E", "D", "V", "C", "P", "K", "C", "5", "A">>,
        v |-> << <<"-", "3", "6", "5", "0">>, <<"-", "3", "3", "0", "0">> >>],
       [k |-> <<"I", "P", "X", "S", "C", "T", "K", "V", "4", "R", "E", "D", "H", "I", "X", "W", "T", "Z", "W", "D", "X", "V", "X", "J", "W", "Y">>,
        v |-> << <<"-", "3", "3", "0", "0">>, <<"-", "3", "1", "5", "1">> >>],
       [k |-> <<"M", "M", "4", "Q", "Y", "A", "C", "J", "O", "J", "C", "C", "L", "J", "W", "B", "D", "6", "V", "A", "X", "2", "F", "L", "K", "E">>,
        v |-> << <<"-", "2", "1", "3", "5">>, <<"-", "1", "7", "9", "4">> >>],
       [k |-> <<"J", "S", "3", "2", "J", "K", "X", "2", "C", "N", "G", "2", "5", "G", "Z", "3", "B", "6", "M", "G", "Y", "M", "D", "U", "4", "I">>,
        v |-> << <<"-", "1", "0", "7", "0">>, <<" ", "-", "6", "5", "6">> >>],
       [k |-> <<"H", "Y", "Y", "N", "M", "J", "R", "F", "T", "V", "F", "I", "H", "B", "7", "J", "U", "A", "6", "M", "2", "Q", "W", "3", "L", "Q">>,
        v |-> << <<" ", "-", "3", "3", "2">>, <<" ", " ", "-", "3", "0">> >>],
       [k |-> <<"D", "3", "R", "5", "C", "H", "5", "N", "Z", "B", "D", "A", "7", "I", "Z", "M", "C", "K", "K", "J", "P", "W", "Y", "Z", "K", "U">>,
        v |-> << <<" ", "-", "9", "0", "0">>, <<" ", " ", " ", "-", "1">> >>],
       [k |-> <<"F", "H", "Z", "E", "I", "N", "D", "C", "E", "J", "A", "O", "T", "H", "I", "V", "C", "3", "5", "N", "Y", "G", "M", "C", "2", "Q">>,
        v |-> << <<" ", " ", " ", " ", "1">>, <<" ", " ", "9", "0", "0">> >>] >>

\* dict |= dict: keys of the right replace or are appended
RECURSIVE DictUpdate(_, _)
DictUpdate(d, other) ==
    IF other = <<>> THEN d
    ELSE DictUpdate(DictPut(d, Head(other).k, Head(other).v), Tail(other))

\* entry['dates'] of an entry without dates is a KeyError
fill_in_missing_dateranges(entry_id, entry, ths) ==
    IF DictHas(missing_dateranges, entry_id)
    THEN IF ~DictHas(entry, "dates") THEN [entry |-> entry, wlist |-> ths, raised |-> TRUE]
         ELSE LET amendment == DictGet(missing_dateranges, entry_id, <<>>)
              IN  [entry |-> DictPut(entry, "dates",
                                 DictUpdate(DictGet(entry, "dates", <<>>),
                                     << [k |-> "beginning", v |-> << amendment[1] >>],
                                        [k |-> "end", v |-> << amendment[2] >>] >>)),
                   wlist |-> ths, raised |-> FALSE]
    ELSE [entry |-> entry, wlist |-> ths, raised |-> FALSE]

----------------------------------------------------------------------------
(* proc.py: patch_vocab *)

ApplyFunction(func, _id, entry, wlist) ==
    CASE func = "_verify_relations" -> _verify_relations(_id, entry, wlist)
      [] func = "_mirror_relations" -> _mirror_relations(_id, entry, wlist)
      [] func = "fill_in_missing_dateranges" ->
            fill_in_missing_dateranges(_id, entry, wlist)

\* one iteration of patch_vocab's inner loop: vocab[_id] = func(_id, entry, vocab)
PatchStep(wlist, _id, func) ==
    LET r == ApplyFunction(func, _id, DictGet(wlist, _id, <<>>), wlist)
    IN  [wlist |-> IF r.raised THEN r.wlist ELSE DictPut(r.wlist, _id, r.entry),
         raised |-> r.raised]

\* patch_vocab from entry e, pass f on: all passes on one entry, then the next entry
RECURSIVE PatchFrom(_, _, _, _)
PatchFrom(r, funcs, e, f) ==
    IF r.raised \/ e > Len(r.wlist) THEN r
    ELSE IF f > Len(funcs) THEN PatchFrom(r, funcs, e + 1, 1)
    ELSE PatchFrom(PatchStep(r.wlist, r.wlist[e].k, funcs[f]), funcs, e, f + 1)

patch_vocab(wlist, funcs) == PatchFrom([wlist |-> wlist, raised |-> FALSE], funcs, 1, 1)

----------------------------------------------------------------------------
(* The repair run: extraction of the relations of every dump record, then  *)
(* patch_vocab over the registry.                                          *)

RelationItems ==
    [type : DataPredicates, objectId : Range(DumpOrder) \cup {UnknownId}]

ItemLists(n) == UNION {[1..m -> RelationItems] : m \in 0..n}

PassOrders ==
    { <<"_verify_relations", "_mirror_relations">>,
      <<"_mirror_relations", "_verify_relations">> }

InitRepair ==
    /\ pc = "extract"
    /\ vocab = <<>>
    /\ functions \in PassOrders
    /\ ei = 1
    /\ fi = 1
    /\ budget = MaxEdges
    /\ vocab0 = <<>>
    /\ log = <<>>
    /\ tree = <<>>
    /\ insertion = "relations"
    /\ run = 0 /\ work = <<>> /\ w = 1 /\ stats = <<>>
    /\ tree0 = <<>> /\ tree1 = <<>> /\ file = <<>>
    /\ vi = 1 /\ invalid = <<>>
    /\ dump = <<>>
    /\ given = <<>> /\ stripped = <<>>

\* bts.init_vocab: the next dump record's properties are extracted
Extract ==
    /\ pc = "extract"
    /\ Len(vocab) < Len(DumpOrder)
    /\ \E items \in ItemLists(budget) :
          /\ vocab' = Append(vocab, [k |-> DumpOrder[Len(vocab) + 1],
                                     v |-> get_relations([relations |-> List(items)]).v])
          /\ budget' = budget - Len(items)
    /\ UNCHANGED <<pc, vocab0, tree, repairVars, mergeVars, validateVars, idVars>>

\* patch_vocab is entered with the extracted registry
StartPatch ==
    /\ pc = "extract"
    /\ Len(vocab) = Len(DumpOrder)
    /\ pc' = "patch"
    /\ vocab0' = vocab
    /\ ei' = 1
    /\ fi' = 1
    /\ UNCHANGED <<vocab, functions, budget, log, dump, tree, mergeVars, validateVars, idVars>>

\* mutant: a pass is applied to every entry before the next pass starts
ApplyPassSweep ==
    /\ pc = "patch"
    /\ ei <= Len(vocab)
    /\ LET _id == vocab[ei].k
           r == PatchStep(vocab, _id, functions[fi])
       IN  /\ vocab' = r.wlist
           /\ log' = Append(log, <<functions[fi], _id>>)
           /\ IF r.raised
              THEN pc' = "failed" /\ UNCHANGED <<ei, fi>>
              ELSE /\ IF ei < Len(vocab)
                      THEN ei' = ei + 1 /\ fi' = fi
                      ELSE ei' = 1 /\ fi' = fi + 1
                   /\ pc' = IF fi = Len(functions) /\ ei = Len(vocab)
                            THEN "patched" ELSE "patch"
    /\ UNCHANGED <<functions, budget, vocab0, dump, tree, mergeVars, validateVars, idVars>>

\* one pass is applied to one entry
ApplyPass ==
    /\ pc = "patch"
    /\ ei <= Len(vocab)
    /\ LET _id == vocab[ei].k
           r == PatchStep(vocab, _id, functions[fi])
       IN  /\ vocab' = r.wlist
           /\ log' = Append(log, <<functions[fi], _id>>)
           /\ IF r.raised
              THEN pc' = "failed" /\ UNCHANGED <<ei, fi>>
              ELSE /\ IF fi < Len(functions)
                      THEN fi' = fi + 1 /\ ei' = ei
                      ELSE fi' = 1 /\ ei' = ei + 1
                   /\ pc' = IF fi = Len(functions) /\ ei = Len(vocab)
                            THEN "patched" ELSE "patch"
    /\ UNCHANGED <<functions, budget, vocab0, dump, tree, mergeVars, validateVars, idVars>>

NextRepair == Extract \/ StartPatch \/ ApplyPass

SpecRepair == InitRepair /\ [][NextRepair]_vars

----------------------------------------------------------------------------
(* Properties of the relation graph repair *)

VerifyMirror == <<"_verify_relations", "_mirror_relations">>
MirrorVerify == <<"_mirror_relations", "_verify_relations">>

Relations(wlist, _id) == DictGet(DictGet(wlist, _id, <<>>), "relations", <<>>)
Targets(wlist, _id, predicate) == DictGet(Relations(wlist, _id), predicate, <<>>)
HasEdge(wlist, e, predicate, t) == t \in Range(Targets(wlist, e, predicate))
Inverse(predicate) == DictGet(INVERSE, predicate, NoneQ)

\* an edge e -predicate-> t between two distinct entries without its inverse
Unmirrored(wlist) ==
    \E e \in DictKeys(wlist), t \in DictKeys(wlist) :
        \E predicate \in DictKeys(Relations(wlist, e)) :
            /\ e # t
            /\ HasEdge(wlist, e, predicate, t)
            /\ ~HasEdge(wlist, t, Inverse(predicate), e)

\* an id in some relation list that is no key of the registry
Dangling(wlist) ==
    \E e \in DictKeys(wlist) :
        \E predicate \in DictKeys(Relations(wlist, e)) :
            \E t \in Range(Targets(wlist, e, predicate)) : ~DictHas(wlist, t)

\* C2 (mirror symmetry): once patch_vocab has applied [_verify_relations,
\* _mirror_relations] to the whole registry, every edge e -P-> t between two
\* distinct entries has its inverse edge t -inverse(P)-> e.
MirrorSymmetry ==
    (pc = "patched" /\ functions = VerifyMirror) => ~Unmirrored(vocab)

\* C2 witness: the repair completed on a registry in which a later entry
\* points at an earlier one, and the earlier one now carries the inverse edge.
MirrorSymmetryWitness ==
    /\ pc = "patched" /\ functions = VerifyMirror
    /\ HasEdge(vocab0, DumpOrder[2], "partOf", DumpOrder[1])
    /\ ~HasEdge(vocab0, DumpOrder[1], "contains", DumpOrder[2])
    /\ HasEdge(vocab, DumpOrder[1], "contains", DumpOrder[2])

\* a is b with some elements left out, the others in the same order
RECURSIVE IsSubsequence(_, _)
IsSubsequence(a, b) ==
    IF a = <<>> THEN TRUE
    ELSE IF b = <<>> THEN FALSE
    ELSE IF Head(a) = Head(b) THEN IsSubsequence(Tail(a), Tail(b))
    ELSE IsSubsequence(a, Tail(b))

\* new holds exactly the known ids of old, in the order of old
KnownKept(new, old, wlist) ==
    /\ IsSubsequence(new, old)
    /\ \A i \in 1..Len(new) : DictHas(wlist, new[i])
    /\ Len(new) = Cardinality({i \in 1..Len(old) : DictHas(wlist, old[i])})

\* C3 (referential integrity): a step that applies the verify pass to an
\* entry leaves that entry with the same predicate keys in the same order,
\* each list holding exactly its known ids in their old order (a list may
\* become empty, its key stays); and when the repair [verify, mirror] has
\* finished, no relation list holds an id that is no registry key.
ReferentialIntegrity ==
    [][ /\ (pc = "patch" /\ functions[fi] = "_verify_relations" /\ pc' # "failed")
            => LET _id == vocab[ei].k
                   old == Relations(vocab, _id)
                   new == Relations(vocab', _id)
               IN  /\ DictHas(DictGet(vocab', _id, <<>>), "relations")
                   /\ Len(new) = Len(old)
                   /\ \A i \in 1..Len(old) :
                         /\ new[i].k = old[i].k
                         /\ KnownKept(new[i].v, old[i].v, vocab)
        /\ (pc' = "patched" /\ functions = VerifyMirror) => ~Dangling(vocab')
      ]_vars

\* C3 witness: the repair [verify, mirror] completed on a registry whose
\* first entry listed an unknown id before a known one under one predicate
\* and only an unknown id under another; the known id is kept, the emptied
\* list is still there.
ReferentialIntegrityWitness ==
    /\ pc = "patched" /\ functions = VerifyMirror
    /\ \E p \in DataPredicates, q \in DataPredicates :
          /\ Targets(vocab0, DumpOrder[1], p) = <<UnknownId>>
          /\ DictHas(Relations(vocab, DumpOrder[1]), p)
          /\ Targets(vocab, DumpOrder[1], p) = <<>>
          /\ Len(Targets(vocab0, DumpOrder[2], q)) = 1
          /\ DictHas(vocab, Targets(vocab0, DumpOrder[2], q)[1])

\* the passes of patch_vocab in the order of a sweep per pass
Sweep(funcs, wlist) ==
    [n \in 1..(Len(funcs) * Len(wlist)) |->
        << funcs[((n - 1) \div Len(wlist)) + 1], wlist[((n - 1) % Len(wlist)) + 1].k >>]

\* the passes of patch_vocab in the order of all passes per entry
PerEntry(funcs, wlist) ==
    [n \in 1..(Len(funcs) * Len(wlist)) |->
        << funcs[((n - 1) % Len(funcs)) + 1], wlist[((n - 1) \div Len(funcs)) + 1].k >>]

IsPrefix(a, b) == Len(a) <= Len(b) /\ \A i \in 1..Len(a) : a[i] = b[i]

\* C4 as claimed (pass scheduling): the first pass has been applied to
\* every entry of the registry before the second pass is applied to any.
SweepScheduling == IsPrefix(log, Sweep(functions, vocab))

\* C4 as amended: patch_vocab applies every pass to an entry before it
\* turns to the next entry of the registry.
PerEntryScheduling == IsPrefix(log, PerEntry(functions, vocab))

\* C4 witness: the second pass has been applied to the first entry and
\* the first pass to the second entry after it.
PerEntrySchedulingWitness ==
    /\ Len(log) >= 3
    /\ log[2] = <<functions[2], DumpOrder[1]>>
    /\ log[3] = <<functions[1], DumpOrder[2]>>

\* C5 as claimed (pass order): [mirror, verify] on a registry with an edge
\* to an unknown id leaves a stray inverse edge, and its result differs
\* from the result of [verify, mirror].
StrayInverseEdge ==
    (pc = "patched" /\ functions = MirrorVerify /\ Dangling(vocab0))
        => /\ Unmirrored(vocab)
           /\ vocab # patch_vocab(vocab0, VerifyMirror).wlist

\* C5 as amended: [mirror, verify] on a registry with an edge to an unknown
\* id, when it completes, leaves no stray inverse edge and no entry for the
\* unknown id, and its result is the result of [verify, mirror].
NoStrayInverseEdge ==
    (pc = "patched" /\ functions = MirrorVerify /\ Dangling(vocab0))
        => /\ ~Unmirrored(vocab)
           /\ DictKeys(vocab) = DictKeys(vocab0)
           /\ ~patch_vocab(vocab0, VerifyMirror).raised
           /\ vocab = patch_vocab(vocab0, VerifyMirror).wlist

\* C5 witness: [mirror, verify] completed on a registry whose first entry
\* pointed at an unknown id and at the second entry.
NoStrayInverseEdgeWitness ==
    /\ pc = "patched" /\ functions = MirrorVerify
    /\ HasEdge(vocab0, DumpOrder[1], "partOf", UnknownId)
    /\ HasEdge(vocab, DumpOrder[2], "contains", DumpOrder[1])

----------------------------------------------------------------------------
(* The target document: a delb tree.  A node is [tag, attrs, text, kids];  *)
(* attrs is a function from the names of the attributes the node has to    *)
(* their values, text is the node's text content, kids are its child       *)
(* elements in document order.  A node is addressed by its path, the       *)
(* sequence of child indices leading to it from the root.                  *)

Tag(tag, attrs, text, kids) ==
    [tag |-> tag, attrs |-> attrs, text |-> text, kids |-> kids]

NoAttrs == <<>>

RECURSIVE NodeAt(_, _)
NodeAt(node, path) ==
    IF path = <<>> THEN node ELSE NodeAt(node.kids[Head(path)], Tail(path))

RECURSIVE Flatten(_)
Flatten(ss) == IF ss = <<>> THEN <<>> ELSE Head(ss) \o Flatten(Tail(ss))

\* the paths of node (which is at path) and of its descendants, in document order
RECURSIVE Subtree(_, _)
Subtree(node, path) ==
    <<path>> \o Flatten([i \in 1..Len(node.kids) |->
                            Subtree(node.kids[i], Append(path, i))])

RECURSIVE ReplaceAt(_, _, _)
ReplaceAt(node, path, new) ==
    IF path = <<>> THEN new
    ELSE [node EXCEPT !.kids[Head(path)] = ReplaceAt(@, Tail(path), new)]

\* TagNode.append_child
append_child(doc, path, child) ==
    ReplaceAt(doc, path, [NodeAt(doc, path) EXCEPT !.kids = Append(@, child)])

\* TagNode.attributes[name] = value
set_attribute(doc, path, name, value) ==
    LET node == NodeAt(doc, path)
        attrs == [a \in DOMAIN node.attrs \cup {name} |->
                     IF a = name THEN value ELSE node.attrs[a]]
    IN  ReplaceAt(doc, path, [node EXCEPT !.attrs = attrs])

\* one compound selector: a tag name and attribute tests [attr="value"]
Step(tag, attrs) == [tag |-> tag, attrs |-> attrs]

StepMatches(node, step) ==
    /\ node.tag = step.tag
    /\ \A a \in DOMAIN step.attrs :
          a \in DOMAIN node.attrs /\ node.attrs[a] = step.attrs[a]

\* the node at path p matches the last step, its parent the step before, ...
ChainMatches(doc, p, steps) ==
    /\ Len(p) >= Len(steps) - 1
    /\ \A j \in 1..Len(steps) :
          StepMatches(NodeAt(doc, SubSeq(p, 1, Len(p) - (Len(steps) - j))), steps[j])

\* TagNode.css_select of a selector "s1 > s2 > ... > sn" on the node at path
\* e: the selector is translated to descendant-or-self::s1/s2/.../sn, so s1
\* matches e itself or any descendant of e; the result is in document order.
css_select(doc, e, steps) ==
    SelectSeq(Subtree(NodeAt(doc, e), e),
              LAMBDA p : /\ Len(p) - (Len(steps) - 1) >= Len(e)
                         /\ ChainMatches(doc, p, steps))

\* TagNode.xpath('./tag[@attr="value"]'): the matching children of e
xpath_children(doc, e, step) ==
    SelectSeq([i \in 1..Len(NodeAt(doc, e).kids) |-> Append(e, i)],
              LAMBDA p : StepMatches(NodeAt(doc, p), step))

----------------------------------------------------------------------------
(* inserters.py *)

Whitespace == {" ", "\t", "\n"}

RECURSIVE LStrip(_)
LStrip(str) ==
    IF str # <<>> /\ Head(str) \in Whitespace THEN LStrip(Tail(str)) ELSE str

RECURSIVE RStrip(_)
RStrip(str) ==
    IF str # <<>> /\ str[Len(str)] \in Whitespace
    THEN RStrip(SubSeq(str, 1, Len(str) - 1)) ELSE str

\* str.strip()
Strip(str) == RStrip(LStrip(str))

tla == <<"t", "l", "a">>

DATERANGE_BOUNDS ==
    << [k |-> "beginning", v |-> "from"], [k |-> "end", v |-> "to"] >>

\* mutant: only a blank value counts as present
_has_relation_blank(doc, e, predicate, value) == Strip(value) = <<>>

_has_relation(doc, e, predicate, value) ==
    IF Strip(value) = <<>> THEN TRUE
    ELSE css_select(doc, e, << Step("entry", NoAttrs),
                               Step("xr", "type" :> predicate),
                               Step("ref", "target" :> (tla \o value)) >>) # <<>>

_add_relation(doc, e, predicate, value) ==
    LET doc1 == IF xpath_children(doc, e, Step("xr", "type" :> predicate)) = <<>>
                THEN append_child(doc, e, Tag("xr", "type" :> predicate, <<>>, <<>>))
                ELSE doc
    IN  append_child(doc1,
                     Head(xpath_children(doc1, e, Step("xr", "type" :> predicate))),
                     Tag("ref", "target" :> (tla \o value), <<>>, <<>>))

_has_translation(doc, e, lang, value) ==
    IF Strip(value) = <<>> THEN TRUE
    ELSE SelectSeq(
            css_select(doc, e, << Step("entry", NoAttrs), Step("sense", NoAttrs),
                                  Step("cit", ("type" :> "translation")
                                              @@ ("xml:lang" :> lang)),
                                  Step("quote", NoAttrs) >>),
            LAMBDA quote : NodeAt(doc, quote).text = value) # <<>>

_add_translation(doc, e, lang, value) ==
    LET sense == << Step("entry", NoAttrs), Step("sense", NoAttrs) >>
        doc1 == IF css_select(doc, e, sense) = <<>>
                THEN append_child(doc, e, Tag("sense", NoAttrs, <<>>, <<>>))
                ELSE doc
    IN  append_child(doc1, Head(css_select(doc1, e, sense)),
                     Tag("cit", ("type" :> "translation") @@ ("xml:lang" :> lang), <<>>,
                         << Tag("quote", NoAttrs, value, <<>>) >>))

_has_daterange(doc, e, pred, value) ==
    LET attribute == DictGet(DATERANGE_BOUNDS, pred, NoneQ)
    IN  css_select(doc, e, << Step("category", NoAttrs), Step("catDesc", NoAttrs),
                              Step("date", attribute :> value) >>) # <<>>

_add_daterange(doc, e, pred, value) ==
    LET catDesc == << Step("category", NoAttrs), Step("catDesc", NoAttrs) >>
        date == Append(catDesc, Step("date", NoAttrs))
        doc1 == IF css_select(doc, e, catDesc) = <<>>
                THEN append_child(doc, e, Tag("catDesc", NoAttrs, <<>>, <<>>))
                ELSE doc
        doc2 == IF css_select(doc1, e, date) = <<>>
                THEN append_child(doc1, Head(css_select(doc1, e, catDesc)),
                                  Tag("date", NoAttrs, <<>>, <<>>))
                ELSE doc1
    IN  set_attribute(doc2, Head(css_select(doc2, e, date)),
                      DictGet(DATERANGE_BOUNDS, pred, NoneQ), value)

\* the index of the first occurrence of sep in str at or after i, 0 if none
RECURSIVE Find(_, _, _)
Find(str, sep, i) ==
    IF i + Len(sep) - 1 > Len(str) THEN 0
    ELSE IF SubSeq(str, i, i + Len(sep) - 1) = sep THEN i
    ELSE Find(str, sep, i + 1)

\* aedid.split('tla', maxsplit=1)[-1]
_strip_id(aedid) ==
    LET i == Find(aedid, tla, 1)
    IN  IF i = 0 THEN aedid ELSE SubSeq(aedid, i + Len(tla), Len(aedid))

_get_id(doc, entry) == _strip_id(NodeAt(doc, entry).attrs["xml:id"])

----------------------------------------------------------------------------
(* providers/bts.py: extraction of translations and of date boundaries *)

\* a dump record's translation items: [lang, value]
RECURSIVE RegisterTranslations(_, _)
RegisterTranslations(res, items) ==
    IF items = <<>> THEN res
    ELSE RegisterTranslations(
            register_qualified_property(res, Head(items).lang, Head(items).value),
            Tail(items))

\* bts_entry.get('translations', {}).get('translations', []): the outer field
\* is a dict that may hold the list, or null (null has no get: AttributeError)
get_translations(bts_entry) ==
    LET outer == RecordGet(bts_entry, "translations", [null |-> FALSE])
        inner == IF outer.null THEN Null
                 ELSE RecordGet(outer, "translations", List(<<>>))
    IN  IF inner.null THEN [raised |-> TRUE, v |-> <<>>]
        ELSE [raised |-> FALSE,
              v |-> << [k |-> "translations",
                        v |-> RegisterTranslations(<<>>, inner.items)] >>]

\* a passport node is [type, value, children]; a key the dict lacks is None
\* (type, value) or the empty list (children)
PassportNode(type, value, children) ==
    [type |-> type, value |-> value, children |-> children]

\* '.'.join(segments[1:]).split('.')
RestOfPath(segments) == IF Len(segments) <= 1 THEN <<"">> ELSE Tail(segments)

\* path is the list path.split('.'); node.get(segments[0], node) is the node
\* itself, as no path segment is a key ('type', 'value', 'children') of a node
RECURSIVE extract_passport_values(_, _)
extract_passport_values(node, segments) ==
    IF Len(segments) = 1 /\ node.type = segments[Len(segments)]
    THEN IF TruthyV(node.value) THEN <<node.value>> ELSE <<>>
    ELSE Flatten([i \in 1..Len(node.children) |->
                    extract_passport_values(node.children[i], RestOfPath(segments))])

\* bts_entry.get('passport', {}) and bts_entry.get('type')
get_ths_entry_dates(bts_entry) ==
    LET passport == RecordGet(bts_entry, "passport", PassportNode(NoneQ, NoneV, <<>>))
    IN  << [k |-> "dates",
            v |-> IF RecordGet(bts_entry, "type", NoneQ) = "date"
                  THEN << [k |-> "beginning",
                           v |-> extract_passport_values(passport,
                                    <<"", "thesaurus_date", "main_group", "beginning">>)],
                          [k |-> "end",
                           v |-> extract_passport_values(passport,
                                    <<"", "thesaurus_date", "main_group", "end">>)] >>
                  ELSE <<>>] >>

----------------------------------------------------------------------------
(* proc.py: TargetDef and SourceDef *)

\* TargetDef.get_elements
get_elements(doc, element) == css_select(doc, <<>>, << Step(element, NoAttrs) >>)

\* TargetDef.get_ids
get_ids(doc, element) ==
    {_get_id(doc, get_elements(doc, element)[i]) :
        i \in 1..Len(get_elements(doc, element))}

\* {_id: entry for _id, entry in registry.items() if _id in xml_ids}
Restrict(registry, xml_ids) == SelectSeq(registry, LAMBDA item : item.k \in xml_ids)

\* SourceDef.extract_and_match on the extracted registry
extract_and_match(registry, xml_ids, patch_funcs) ==
    Restrict(patch_vocab(Restrict(registry, xml_ids), patch_funcs).wlist, xml_ids)

\* PropertyInsertion.has_property of the three insertions
has_property(property_name, doc, e, type, value) ==
    CASE property_name = "relations" -> _has_relation(doc, e, type, value)
      [] property_name = "translations" -> _has_translation(doc, e, type, value)
      [] property_name = "dates" -> _has_daterange(doc, e, type, value)

\* PropertyInsertion.add_property of the three insertions
add_property(property_name, doc, e, type, value) ==
    CASE property_name = "relations" -> _add_relation(doc, e, type, value)
      [] property_name = "translations" -> _add_translation(doc, e, type, value)
      [] property_name = "dates" -> _add_daterange(doc, e, type, value)

\* TargetDef.element of the three insertions
TargetElement(property_name) ==
    IF property_name = "dates" THEN "category" ELSE "entry"

\* the (qualifier, value) pairs of one property dict, in iteration order
Pairs(entry, _id, properties) ==
    Flatten([q \in 1..Len(properties) |->
                [n \in 1..Len(properties[q].v) |->
                    [entry |-> entry, id |-> _id,
                     type |-> properties[q].k, value |-> properties[q].v[n]]]])

\* TargetDef.update: what its three nested loops iterate, in order
Iteration(doc, entries, property_name) ==
    LET elements == get_elements(doc, TargetElement(property_name))
    IN  Flatten([i \in 1..Len(elements) |->
            LET _id == _get_id(doc, elements[i])
            IN  Pairs(elements[i], _id,
                      DictGet(DictGet(entries, _id, <<>>), property_name, <<>>))])

\* TargetDef.update: the body of the innermost loop; r is [doc, stats]
UpdateStep(property_name, r, item) ==
    IF ~has_property(property_name, r.doc, item.entry, item.type, item.value)
    THEN [doc |-> add_property(property_name, r.doc, item.entry, item.type, item.value),
          stats |-> [elements |-> r.stats.elements + 1,
                     entries |-> r.stats.entries \cup {item.id}]]
    ELSE r

NoStats == [elements |-> 0, entries |-> {}]

----------------------------------------------------------------------------
(* The merge run: a target document is loaded, the property of the run is  *)
(* extracted from every dump record, the registry is matched to the        *)
(* document and TargetDef.update is called on it, twice.                   *)

\* dump items (translations, relations or date boundaries) extracted per run
MaxItems == 2

\* the ids of the dump records of a merge run, in dump order
DumpIds == << <<"1">>, <<"2">> >>

Blank == <<" ">>

Qualifiers(property_name) ==
    CASE property_name = "relations" -> {"partOf", "contains"}
      [] property_name = "translations" -> {"de", "en"}
      [] property_name = "dates" -> {"beginning", "end"}

Values(property_name) ==
    CASE property_name = "relations" -> {<<"2">>, Blank}
      [] property_name = "translations" -> {<<"g">>, Blank}
      [] property_name = "dates" -> {<<"-", "5">>, <<"-", "1">>, Blank}

Items(property_name) ==
    [type : Qualifiers(property_name), value : Values(property_name)]

ItemSeqs(property_name, n) == UNION {[1..m -> Items(property_name)] : m \in 0..n}

\* the dump record that carries the items, and what is extracted from it
ExtractProperties(property_name, items) ==
    CASE property_name = "relations" ->
            get_relations([relations |-> List([i \in 1..Len(items) |->
                [type |-> items[i].type, objectId |-> items[i].value]])]).v
      [] property_name = "translations" ->
            get_translations(
                [translations |-> [null |-> FALSE, translations |-> List(
                    [i \in 1..Len(items) |->
                        [lang |-> items[i].type, value |-> items[i].value]])]]).v
      [] property_name = "dates" ->
            get_ths_entry_dates(
                [type |-> "date",
                 passport |-> PassportNode(NoneQ, NoneV,
                    << PassportNode("thesaurus_date", NoneV,
                        << PassportNode("main_group", NoneV,
                            [i \in 1..Len(items) |->
                                PassportNode(items[i].type, items[i].value, <<>>)])
                        >>) >>)])

Xr(predicate, targets) ==
    Tag("xr", "type" :> predicate, <<>>,
        [i \in 1..Len(targets) |-> Tag("ref", "target" :> (tla \o targets[i]), <<>>, <<>>)])

Cit(lang, value) ==
    Tag("cit", ("type" :> "translation") @@ ("xml:lang" :> lang), <<>>,
        << Tag("quote", NoAttrs, value, <<>>) >>)

\* what a target element may hold when the document is loaded
Contents(property_name) ==
    CASE property_name = "relations" ->
            { <<>>,
              << Xr("partOf", << <<"2">> >>) >>,
              << Xr("partOf", <<>>), Xr("partOf", << <<"1">> >>) >> }
      [] property_name = "translations" ->
            { <<>>,
              << Tag("sense", NoAttrs, <<>>, << Cit("de", <<"g">>) >>) >>,
              << Tag("sense", NoAttrs, <<>>, <<>>),
                 Tag("sense", NoAttrs, <<>>, << Cit("en", <<"g">>) >>) >> }
      [] property_name = "dates" ->
            { <<>>,
              << Tag("catDesc", NoAttrs, <<"x">>, <<>>) >>,
              << Tag("catDesc", NoAttrs, <<"x">>,
                    << Tag("date", ("from" :> <<"-", "5">>) @@ ("to" :> <<"-", "1">>),
                           <<>>, <<>>) >>) >> }

Element(property_name, _id, kids) ==
    Tag(TargetElement(property_name), "xml:id" :> (tla \o _id), <<>>, kids)

Document(kids) == Tag("TEI", NoAttrs, <<>>, kids)

\* the documents a merge run may load: elements 1 and 2, or elements 1 and 3;
\* categories also nested (the thesaurus is a tree)
Documents(property_name) ==
    LET C == Contents(property_name)
        El(_id, kids) == Element(property_name, _id, kids)
    IN  {Document(<< El(<<"1">>, c1), El(<<"2">>, c2) >>) : c1 \in C, c2 \in C}
        \cup {Document(<< El(<<"1">>, <<>>), El(<<"3">>, c3) >>) : c3 \in C}
        \cup IF property_name # "dates" THEN {}
             ELSE {Document(<< El(<<"1">>, c1 \o << El(<<"2">>, c2) >>) >>) :
                        c1 \in C, c2 \in C}
                  \cup {Document(<< El(<<"2">>, c2 \o << El(<<"3">>, c3) >>) >>) :
                        c2 \in C, c3 \in C}

InitMerge ==
    /\ pc = "load"
    /\ insertion \in {"relations", "translations", "dates"}
    /\ tree \in Documents(insertion)
    /\ vocab = <<>>
    /\ budget = MaxItems
    /\ vocab0 = <<>>
    /\ functions = <<>> /\ ei = 1 /\ fi = 1 /\ log = <<>>
    /\ run = 0 /\ work = <<>> /\ w = 1 /\ stats = NoStats
    /\ tree0 = tree /\ tree1 = <<>> /\ file = tree
    /\ vi = 1 /\ invalid = <<>>
    /\ dump = <<>>
    /\ given = <<>> /\ stripped = <<>>

\* bts.init_vocab: the next dump record's properties are extracted
ExtractRecord ==
    /\ pc = "load"
    /\ Len(vocab) < Len(DumpIds)
    /\ \E items \in ItemSeqs(insertion, budget) :
          /\ vocab' = Append(vocab, [k |-> DumpIds[Len(vocab) + 1],
                                     v |-> ExtractProperties(insertion, items)])
          /\ budget' = budget - Len(items)
    /\ UNCHANGED <<pc, vocab0, tree, repairVars, mergeVars, validateVars, idVars>>

\* SourceDef.extract_and_match (without patch functions, as for translations),
\* then TargetDef.update is entered
StartUpdate ==
    /\ pc = "load"
    /\ Len(vocab) = Len(DumpIds)
    /\ LET wlist == extract_and_match(vocab, get_ids(tree, TargetElement(insertion)), <<>>)
       IN  /\ vocab' = wlist
           /\ work' = Iteration(tree, wlist, insertion)
    /\ vocab0' = vocab
    /\ pc' = "update"
    /\ run' = 1
    /\ w' = 1
    /\ stats' = NoStats
    /\ UNCHANGED <<budget, tree, repairVars, insertion, tree0, tree1, file, validateVars, idVars>>

\* TargetDef.update: one pass of the innermost loop (has_property, add_property)
UpdateValue ==
    /\ pc = "update"
    /\ w <= Len(work)
    /\ LET r == UpdateStep(insertion, [doc |-> tree, stats |-> stats], work[w])
       IN  tree' = r.doc /\ stats' = r.stats
    /\ w' = w + 1
    /\ UNCHANGED <<pc, vocab, budget, vocab0, repairVars, insertion, run, work,
                   tree0, tree1, file, validateVars, idVars>>

\* TargetDef.update returns; the merge is run once more on its own output,
\* with the same dump
UpdateAgain ==
    /\ pc = "update"
    /\ w > Len(work)
    /\ run = 1
    /\ tree1' = tree
    /\ run' = 2
    /\ LET wlist == extract_and_match(vocab0, get_ids(tree, TargetElement(insertion)), <<>>)
       IN  /\ vocab' = wlist
           /\ work' = Iteration(tree, wlist, insertion)
    /\ w' = 1
    /\ stats' = NoStats
    /\ UNCHANGED <<pc, budget, vocab0, tree, repairVars, insertion, tree0, file,
                   validateVars, idVars>>

\* the second call of TargetDef.update returns
UpdateDone ==
    /\ pc = "update"
    /\ w > Len(work)
    /\ run = 2
    /\ pc' = "updated"
    /\ UNCHANGED <<vocab, budget, vocab0, tree, repairVars, mergeVars, validateVars, idVars>>

NextMerge == ExtractRecord \/ StartUpdate \/ UpdateValue \/ UpdateAgain \/ UpdateDone

SpecMerge == InitMerge /\ [][NextMerge]_vars

----------------------------------------------------------------------------
(* Claims about the merge run *)

\* the item TargetDef.update is about to look at
AtItem == pc = "update" /\ w <= Len(work)

\* C1: after the second run of the merge, with the same dump, on the output of
\* the first run, the tree is the tree the first run left and the second run
\* has inserted no element and touched no entry.
MergeIdempotence ==
    (pc = "updated") => (tree = tree1 /\ stats.elements = 0 /\ stats.entries = {})

\* C8: whatever the property kind, the element and the qualifier, has_property
\* is true of a value that is empty or only whitespace.
VacuousMatch ==
    (AtItem /\ Strip(work[w].value) = <<>>)
        => has_property(insertion, tree, work[w].entry, work[w].type, work[w].value)

\* every attribute of old is an attribute of new, with the same value
SameAttributes(old, new) ==
    \A a \in DOMAIN old.attrs : a \in DOMAIN new.attrs /\ new.attrs[a] = old.attrs[a]

AllPaths(doc) == Range(Subtree(doc, <<>>))

\* C9: every element the document held when the merge began is still there,
\* with its text and each of its attribute values as they were: the merge only
\* adds.
MergePreserves ==
    (pc \in {"update", "updated"}) =>
        \A p \in AllPaths(tree0) :
            /\ p \in AllPaths(tree)
            /\ NodeAt(tree, p).tag = NodeAt(tree0, p).tag
            /\ NodeAt(tree, p).text = NodeAt(tree0, p).text
            /\ SameAttributes(NodeAt(tree0, p), NodeAt(tree, p))

\* a target element without the target elements nested in it
RECURSIVE OwnContent(_, _)
OwnContent(node, element) ==
    LET kids == SelectSeq(node.kids, LAMBDA k : k.tag # element)
    IN  [node EXCEPT !.kids = [i \in 1..Len(kids) |-> OwnContent(kids[i], element)]]

\* the registry of the dump holds a value under the merged property for _id
HasValues(registry, _id, property_name) ==
    \E item \in Range(DictGet(DictGet(registry, _id, <<>>), property_name, <<>>)) :
        item.v # <<>>

\* C10: the target elements and their ids are those the document had when the
\* merge began; an element is changed only if the dump holds a value of the
\* merged property for its id, and never if its id is not in the dump.
MergeFrame ==
    (pc \in {"update", "updated"}) =>
        LET element == TargetElement(insertion)
            elements == get_elements(tree0, element)
        IN  /\ [i \in 1..Len(get_elements(tree, element)) |->
                    _get_id(tree, get_elements(tree, element)[i])]
               = [i \in 1..Len(elements) |-> _get_id(tree0, elements[i])]
            /\ \A i \in 1..Len(elements) :
                 LET e == elements[i]
                     _id == _get_id(tree0, e)
                     changed == OwnContent(NodeAt(tree, e), element)
                                    # OwnContent(NodeAt(tree0, e), element)
                 IN  /\ changed => HasValues(vocab0, _id, insertion)
                     /\ ~DictHas(vocab0, _id) => ~changed

----------------------------------------------------------------------------
(* validate/dates.py: date ranges of the thesaurus and their containment *)

Digits == <<"0", "1", "2", "3", "4", "5", "6", "7", "8", "9">>

IsDigit(c) == \E i \in 1..Len(Digits) : Digits[i] = c

DigitValue(c) == (CHOOSE i \in 1..Len(Digits) : Digits[i] = c) - 1

\* the value of a digit string in which single underscores may group digits
RECURSIVE Decimal(_, _)
Decimal(acc, s) ==
    IF s = <<>> THEN acc
    ELSE IF Head(s) = "_" THEN Decimal(acc, Tail(s))
    ELSE Decimal(10 * acc + DigitValue(Head(s)), Tail(s))

\* digits, grouped by single underscores, from first to last character
IsDecimal(s) ==
    /\ s # <<>>
    /\ IsDigit(s[1]) /\ IsDigit(s[Len(s)])
    /\ \A i \in 1..Len(s) : IsDigit(s[i]) \/ s[i] = "_"
    /\ \A i \in 1..(Len(s) - 1) : ~(s[i] = "_" /\ s[i + 1] = "_")

\* int(x): None is a TypeError; a string is stripped of whitespace, may carry
\* one sign, and is a ValueError unless decimal digits follow
int(x) ==
    IF x = NoneV THEN [raised |-> TRUE, v |-> 0]
    ELSE LET t == Strip(x)
             signed == t # <<>> /\ Head(t) \in {"-", "+"}
             digits == IF signed THEN Tail(t) ELSE t
         IN  IF ~IsDecimal(digits) THEN [raised |-> TRUE, v |-> 0]
             ELSE [raised |-> FALSE,
                   v |-> IF signed /\ Head(t) = "-" THEN 0 - Decimal(0, digits)
                         ELSE Decimal(0, digits)]

DateSelector ==
    << Step("category", NoAttrs), Step("catDesc", NoAttrs), Step("date", NoAttrs) >>

\* Attributes.get(name)
attributes_get(node, name) ==
    IF name \in DOMAIN node.attrs THEN node.attrs[name] ELSE NoneV

NoRange == [raised |-> TRUE, v |-> <<0, 0>>]

\* [0] of an empty result is an IndexError
daterange(doc, node) ==
    LET dates == css_select(doc, node, DateSelector)
    IN  IF dates = <<>> THEN NoRange
        ELSE LET from == int(attributes_get(NodeAt(doc, dates[1]), "from"))
                 to == int(attributes_get(NodeAt(doc, dates[1]), "to"))
             IN  IF from.raised \/ to.raised THEN NoRange
                 ELSE [raised |-> FALSE, v |-> <<from.v, to.v>>]

min(S) == CHOOSE x \in S : \A y \in S : x <= y

\* mutant: the least of the ends where the greatest is due
least(S) == min(S)

max(S) == CHOOSE x \in S : \A y \in S : x >= y

\* an earlier revision: the node's own range is left out of the aggregate
RECURSIVE child_range_of_children(_, _)
child_range_of_children(doc, node) ==
    LET children == xpath_children(doc, node, Step("category", NoAttrs))
    IN  IF children # <<>>
        THEN LET ranges == [i \in 1..Len(children) |->
                                child_range_of_children(doc, children[i])]
             IN  IF \E r \in Range(ranges) : r.raised THEN NoRange
                 ELSE [raised |-> FALSE,
                       v |-> << min({r.v[1] : r \in Range(ranges)}),
                                max({r.v[2] : r \in Range(ranges)}) >>]
        ELSE daterange(doc, node)

RECURSIVE child_range(_, _)
child_range(doc, node) ==
    LET children == xpath_children(doc, node, Step("category", NoAttrs))
    IN  IF children # <<>>
        THEN LET ranges == [i \in 1..Len(children) |-> child_range(doc, children[i])]
                                \o << daterange(doc, node) >>
             IN  IF \E r \in Range(ranges) : r.raised THEN NoRange
                 ELSE [raised |-> FALSE,
                       v |-> << min({r.v[1] : r \in Range(ranges)}),
                                max({r.v[2] : r \in Range(ranges)}) >>]
        ELSE daterange(doc, node)

abs(n) == IF n < 0 THEN 0 - n ELSE n

\* is_valid without its test of the product of the own boundaries
is_valid_contained(doc, node) ==
    LET own_daterange == daterange(doc, node)
        rec_daterange == child_range(doc, node)
    IN  IF own_daterange.raised \/ rec_daterange.raised
        THEN [raised |-> TRUE, v |-> FALSE]
        ELSE [raised |-> FALSE,
              v |-> /\ own_daterange.v[1] <= rec_daterange.v[1]
                    /\ rec_daterange.v[1] <= rec_daterange.v[2]
                    /\ rec_daterange.v[2] <= own_daterange.v[2]]

\* mutant: the own range need only meet the range of the descendants
is_valid_overlapping(doc, node) ==
    LET own_daterange == daterange(doc, node)
        rec_daterange == child_range(doc, node)
    IN  IF own_daterange.raised \/ rec_daterange.raised
        THEN [raised |-> TRUE, v |-> FALSE]
        ELSE [raised |-> FALSE,
              v |-> /\ own_daterange.v[1] <= rec_daterange.v[2]
                    /\ rec_daterange.v[1] <= own_daterange.v[2]
                    /\ abs(own_daterange.v[1] * own_daterange.v[2]) > 0]

is_valid(doc, node) ==
    LET own_daterange == daterange(doc, node)
        rec_daterange == child_range(doc, node)
    IN  IF own_daterange.raised \/ rec_daterange.raised
        THEN [raised |-> TRUE, v |-> FALSE]
        ELSE [raised |-> FALSE,
              v |-> /\ own_daterange.v[1] <= rec_daterange.v[1]
                    /\ rec_daterange.v[1] <= rec_daterange.v[2]
                    /\ rec_daterange.v[2] <= own_daterange.v[2]
                    /\ abs(own_daterange.v[1] * own_daterange.v[2]) > 0]

get_dates(doc) ==
    SelectSeq(css_select(doc, <<>>, << Step("category", NoAttrs) >>),
              LAMBDA e : css_select(doc, e, DateSelector) # <<>>)

----------------------------------------------------------------------------
(* The validation run: find_invalid loads the thesaurus, selects the       *)
(* categories with a date and keeps those that are not valid.              *)

\* years of the thesaurus dates: -MaxYear .. MaxYear
MaxYear == 1

RECURSIVE StrNat(_)
StrNat(n) == IF n < 10 THEN << Digits[n + 1] >>
             ELSE StrNat(n \div 10) \o << Digits[(n % 10) + 1] >>

\* str(n)
Str(n) == IF n < 0 THEN <<"-">> \o StrNat(0 - n) ELSE StrNat(n)

Years == (0 - MaxYear)..MaxYear

Dated(from, to) ==
    << Tag("catDesc", NoAttrs, <<"x">>,
          << Tag("date", ("from" :> from) @@ ("to" :> to), <<>>, <<>>) >>) >>

\* what a category holds besides its child categories: nothing, a date that
\* is not a number, or a date from one year to another
Undated == << >>

Misdated == Dated(<<"x">>, <<"1">>)

AnyDate == {Undated, Misdated} \cup {Dated(Str(a), Str(b)) : a \in Years, b \in Years}

OrderedDate ==
    {Undated, Misdated}
    \cup {Dated(Str(p[1]), Str(p[2])) : p \in {q \in Years \X Years : q[1] <= q[2]}}

Category(_id, desc, children) == Element("dates", _id, desc \o children)

\* a category from -600 to 0 with two children, from -900 to -700 and from
\* -50 to -1
ExampleThesaurus ==
    Document(<< Category(<<"1">>, Dated(Str(0 - 600), Str(0)),
                    << Category(<<"2">>, Dated(Str(0 - 900), Str(0 - 700)), <<>>),
                       Category(<<"3">>, Dated(Str(0 - 50), Str(0 - 1)), <<>>) >>) >>)

\* the thesauri a validation run may load: a category alone, with one child,
\* with two children, with a child and a grandchild
Thesauri ==
    {ExampleThesaurus}
    \cup {Document(<< Category(<<"1">>, d1, <<>>) >>) : d1 \in AnyDate}
    \cup {Document(<< Category(<<"1">>, d1, << Category(<<"2">>, d2, <<>>) >>) >>) :
            d1 \in AnyDate, d2 \in AnyDate}
    \cup {Document(<< Category(<<"1">>, d1, << Category(<<"2">>, d2, <<>>),
                                               Category(<<"3">>, d3, <<>>) >>) >>) :
            d1 \in OrderedDate, d2 \in OrderedDate, d3 \in OrderedDate}
    \cup {Document(<< Category(<<"1">>, d1,
                        << Category(<<"2">>, d2,
                              << Category(<<"3">>, d3, <<>>) >>) >>) >>) :
            d1 \in OrderedDate, d2 \in OrderedDate, d3 \in OrderedDate}

InitDates ==
    /\ pc = "validate"
    /\ tree \in Thesauri
    /\ vocab = <<>> /\ budget = 0 /\ vocab0 = <<>>
    /\ functions = <<>> /\ ei = 1 /\ fi = 1 /\ log = <<>>
    /\ insertion = "dates" /\ run = 0 /\ work = <<>> /\ w = 1 /\ stats = NoStats
    /\ tree0 = tree /\ tree1 = <<>> /\ file = tree
    /\ vi = 1 /\ invalid = <<>>
    /\ dump = <<>>
    /\ given = <<>> /\ stripped = <<>>

\* find_invalid: get_dates(filename)
GetDates ==
    /\ pc = "validate"
    /\ work' = get_dates(tree)
    /\ vi' = 1
    /\ pc' = "filter"
    /\ UNCHANGED <<vocab, budget, vocab0, tree, repairVars, insertion, run, w, stats,
                   tree0, tree1, file, invalid, idVars>>

\* mutant: filtered_by keeps the dates that are valid
CheckDateValid ==
    /\ pc = "filter"
    /\ vi <= Len(work)
    /\ LET valid == is_valid(tree, work[vi])
       IN  IF valid.raised
           THEN pc' = "failed" /\ UNCHANGED validateVars
           ELSE /\ invalid' = IF valid.v THEN Append(invalid, work[vi]) ELSE invalid
                /\ vi' = vi + 1
                /\ pc' = pc
    /\ UNCHANGED <<vocab, budget, vocab0, tree, repairVars, mergeVars, idVars>>

\* find_invalid: filtered_by looks at the next date; is_valid may raise
CheckDate ==
    /\ pc = "filter"
    /\ vi <= Len(work)
    /\ LET valid == is_valid(tree, work[vi])
       IN  IF valid.raised
           THEN pc' = "failed" /\ UNCHANGED validateVars
           ELSE /\ invalid' = IF ~valid.v THEN Append(invalid, work[vi]) ELSE invalid
                /\ vi' = vi + 1
                /\ pc' = pc
    /\ UNCHANGED <<vocab, budget, vocab0, tree, repairVars, mergeVars, idVars>>

\* find_invalid returns the invalid dates
ReturnInvalid ==
    /\ pc = "filter"
    /\ vi > Len(work)
    /\ pc' = "found"
    /\ UNCHANGED <<vocab, budget, vocab0, tree, repairVars, mergeVars, validateVars, idVars>>

\* find_invalid is called once more on the same document
FindAgain ==
    /\ pc = "found"
    /\ run = 0
    /\ run' = 1
    /\ pc' = "validate"
    /\ vi' = 1
    /\ invalid' = <<>>
    /\ UNCHANGED <<vocab, budget, vocab0, tree, repairVars, insertion, work, w, stats,
                   tree0, tree1, file, idVars>>

NextDates == GetDates \/ CheckDate \/ ReturnInvalid \/ FindAgain

SpecDates == InitDates /\ [][NextDates]_vars

----------------------------------------------------------------------------
(* Claims about the validation run *)

Categories == Range(css_select(tree, <<>>, << Step("category", NoAttrs) >>))

\* find_invalid has returned or raised
Ended == pc \in {"found", "failed"}

\* C6: is_valid is true of a category exactly if its own range holds its
\* descendant range, start <= start <= end <= end, and the product of its own
\* boundaries is not 0 (where either range cannot be computed, is_valid cannot
\* either); so it is false if the descendant range leaves the own range on
\* either side, and false if the own range is (0, 0); find_invalid keeps the
\* categories of which it is false.
IsValidIff ==
    Ended =>
        \A node \in Categories :
            LET own == daterange(tree, node)
                rec == child_range(tree, node)
                valid == is_valid(tree, node)
            IN  IF own.raised \/ rec.raised THEN valid.raised
                ELSE /\ ~valid.raised
                     /\ valid.v <=> (/\ own.v[1] <= rec.v[1] /\ rec.v[1] <= rec.v[2]
                                     /\ rec.v[2] <= own.v[2]
                                     /\ own.v[1] * own.v[2] # 0)
                     /\ (rec.v[1] < own.v[1] \/ rec.v[2] > own.v[2]) => ~valid.v
                     /\ own.v = <<0, 0>> => ~valid.v
                     /\ pc = "found" => (node \in Range(invalid) <=> ~valid.v)

\* find_invalid has returned two of three categories: one whose descendant
\* range starts before its own range, and one that holds its descendants but
\* has a boundary 0; the third, with a child, is valid
IsValidIffWitness ==
    /\ pc = "found"
    /\ Len(work) = 3
    /\ Len(invalid) = 2
    /\ \E node \in Range(invalid) :
          child_range(tree, node).v[1] < daterange(tree, node).v[1]
    /\ \E node \in Range(invalid) :
          LET own == daterange(tree, node)
              rec == child_range(tree, node)
          IN  own.v[1] * own.v[2] = 0 /\ own.v[1] <= rec.v[1] /\ rec.v[2] <= own.v[2]
    /\ \E node \in Range(work) :
          /\ is_valid(tree, node).v
          /\ xpath_children(tree, node, Step("category", NoAttrs)) # <<>>

\* C7: child_range of a category without child categories is its own range;
\* of a category with child categories it is the least start and the greatest
\* end among its own range and child_range of each child category (and cannot
\* be computed where one of these cannot).
ChildRangeParticipates ==
    Ended =>
        \A node \in Categories :
            LET children == xpath_children(tree, node, Step("category", NoAttrs))
                own == daterange(tree, node)
                rec == child_range(tree, node)
                parts == {own} \cup {child_range(tree, children[i]) : i \in 1..Len(children)}
            IN  IF children = <<>> THEN rec = own
                ELSE IF \E r \in parts : r.raised THEN rec.raised
                ELSE /\ ~rec.raised
                     /\ \E r \in parts : r.v[1] = rec.v[1]
                     /\ \E r \in parts : r.v[2] = rec.v[2]
                     /\ \A r \in parts : rec.v[1] <= r.v[1] /\ r.v[2] <= rec.v[2]

\* find_invalid has looked at a category whose own range starts before and
\* ends after the ranges of its two children
ChildRangeParticipatesWitness ==
    /\ pc = "found"
    /\ \E node \in Range(work) :
          LET children == xpath_children(tree, node, Step("category", NoAttrs))
              own == daterange(tree, node)
          IN  /\ Len(children) = 2
              /\ ~child_range(tree, node).raised
              /\ child_range(tree, node) = own
              /\ \A i \in 1..2 : /\ own.v[1] < child_range(tree, children[i]).v[1]
                                 /\ child_range(tree, children[i]).v[2] < own.v[2]

----------------------------------------------------------------------------
(* The pipeline run (process_vocab, as add_lemma_relations calls it): the  *)
(* ids of the target document are read, the relations of every dump record *)
(* are extracted, the registry is restricted to the ids of the document,   *)
(* repaired by patch_vocab with [_verify_relations, _mirror_relations] and *)
(* restricted again, the merge loop runs and the document is saved.        *)

\* dump items (relations) extracted per pipeline run
MaxRelations == 1

\* the dictionaries a pipeline run may load: record 3 of the dump has an
\* entry in the second only; the third holds a relation already
Dictionaries ==
    { Document(<< Element("relations", <<"1">>, <<>>),
                  Element("relations", <<"2">>, <<>>) >>),
      Document(<< Element("relations", <<"1">>, <<>>),
                  Element("relations", <<"2">>, <<>>),
                  Element("relations", <<"3">>, <<>>) >>),
      Document(<< Element("relations", <<"1">>, << Xr("partOf", << <<"2">> >>) >>),
                  Element("relations", <<"2">>, <<>>) >>) }

InitProcess ==
    /\ pc = "extract"
    /\ insertion = "relations"
    /\ tree \in Dictionaries
    /\ vocab = <<>>
    /\ budget = MaxRelations
    /\ vocab0 = <<>>
    /\ functions = <<"_verify_relations", "_mirror_relations">>
    /\ ei = 1 /\ fi = 1 /\ log = <<>>
    /\ run = 0 /\ work = <<>> /\ w = 1 /\ stats = NoStats
    /\ tree0 = tree /\ tree1 = <<>> /\ file = tree
    /\ vi = 1 /\ invalid = <<>>
    /\ dump = <<>>
    /\ given = <<>> /\ stripped = <<>>

\* bts.load_vocabulary / init_vocab raises: the archive or the vocabulary in
\* it is missing or unreadable, or a record has no _id
LoadFails ==
    /\ pc = "extract"
    /\ Len(vocab) < Len(DumpOrder)
    /\ pc' = "failed"
    /\ UNCHANGED <<vocab, budget, vocab0, tree, repairVars, mergeVars, validateVars, idVars>>

\* the registry is restricted to the ids of the document; patch_vocab is
\* entered with it
MatchAndPatch ==
    /\ pc = "extract"
    /\ Len(vocab) = Len(DumpOrder)
    /\ vocab0' = vocab
    /\ vocab' = Restrict(vocab, get_ids(tree, TargetElement(insertion)))
    /\ pc' = "patch"
    /\ ei' = 1
    /\ fi' = 1
    /\ UNCHANGED <<functions, budget, log, dump, tree, mergeVars, validateVars, idVars>>

\* patch_vocab has returned; its result is restricted to the ids of the
\* document and the merge loop is entered
StartMerge ==
    /\ pc = "patched"
    /\ LET wlist == Restrict(vocab, get_ids(tree, TargetElement(insertion)))
       IN  /\ vocab' = wlist
           /\ work' = Iteration(tree, wlist, insertion)
    /\ pc' = "update"
    /\ run' = 1
    /\ w' = 1
    /\ stats' = NoStats
    /\ UNCHANGED <<budget, vocab0, tree, repairVars, insertion, tree0, tree1, file,
                   validateVars, idVars>>

\* has_property or add_property raises (a registered value that is no str
\* has no strip())
MergeFails ==
    /\ pc = "update"
    /\ w <= Len(work)
    /\ pc' = "failed"
    /\ UNCHANGED <<vocab, budget, vocab0, tree, repairVars, mergeVars, validateVars, idVars>>

\* mutant: the document is saved while the merge loop is still running
SaveEarly ==
    /\ pc = "update"
    /\ file' = tree
    /\ pc' = IF w > Len(work) THEN "saved" ELSE pc
    /\ UNCHANGED <<vocab, budget, vocab0, tree, repairVars, insertion, run, work, w,
                   stats, tree0, tree1, validateVars, idVars>>

\* the merge loop is through: target.save()
Save ==
    /\ pc = "update"
    /\ w > Len(work)
    /\ file' = tree
    /\ pc' = "saved"
    /\ UNCHANGED <<vocab, budget, vocab0, tree, repairVars, insertion, run, work, w,
                   stats, tree0, tree1, validateVars, idVars>>

NextProcess ==
    \/ Extract \/ LoadFails \/ MatchAndPatch \/ ApplyPass \/ StartMerge
    \/ UpdateValue \/ MergeFails \/ Save

SpecProcess == InitProcess /\ [][NextProcess]_vars

----------------------------------------------------------------------------
(* Claims about the pipeline run and the unmapped predicate *)

\* C11: in the pipeline the verify pass takes a target out of a relation list
\* only if no dump record has that id: every target of the extracted registry
\* that is the id of a dump record is still in its list while and after
\* patch_vocab runs, whether or not the document has an element for it.
VerifyKeepsDumpIds ==
    (pc \in {"patch", "patched"}) =>
        \A e \in DictKeys(vocab) :
            \A predicate \in DictKeys(Relations(vocab0, e)) :
                \A t \in Range(Targets(vocab0, e, predicate)) :
                    DictHas(vocab0, t) => HasEdge(vocab, e, predicate, t)

\* C12: patch_vocab never completes when an entry carries a relation list
\* under a predicate that has no inverse (the predicates of an entry without
\* inverse are those it was extracted with, and the mirror pass has processed
\* every entry once patch_vocab is through).
UnmappedPredicateFatal ==
    (pc = "patched") =>
        \A e \in DictKeys(vocab0) :
            \A predicate \in DictKeys(Relations(vocab0, e)) : DictHas(INVERSE, predicate)

\* the passes patch_vocab has to apply before it returns
Repaired ==
    \A e \in DictKeys(vocab) :
        \A f \in Range(functions) : <<f, e>> \in Range(log)

\* C13: the document changes in the merge loop only, which runs on the
\* registry extracted from every dump record and repaired by every pass; the
\* file is written only once the merge loop is through; and when the run has
\* failed the file is as it was loaded.
RunOrdering ==
    /\ [](pc = "update" => (Len(vocab0) = Len(DumpOrder) /\ Repaired))
    /\ [][ /\ tree' # tree => (pc = "update" /\ pc' = "update")
           /\ file' # file => (pc = "update" /\ w > Len(work) /\ pc' = "saved")
           /\ pc' = "failed" => file' = tree0 ]_vars

\* the run has failed in the merge loop after an element was added: the
\* document has changed, the file has not
RunOrderingWitness ==
    /\ pc = "failed"
    /\ tree # tree0
    /\ stats.elements > 0
    /\ file = tree0

----------------------------------------------------------------------------
(* The extraction run (bts.init_vocab): the records of a dump are loaded,  *)
(* one extract function is applied to each of them; the registry of a      *)
(* thesaurus is then patched with fill_in_missing_dateranges.              *)

\* items (translations, relations, passport leaves) in the records of a dump
MaxFields == 2

\* the id of the thesaurus entry 'Badari-Kultur', a key of missing_dateranges
Badari == missing_dateranges[6].k

\* the ids of the records of the dump, in dump order
RecordIds(property_name) ==
    IF property_name = "dates" THEN << Badari, <<"1">> >> ELSE DumpIds

\* an item of a list in a record; a key the item lacks reads as None
FieldItems(property_name) ==
    CASE property_name = "relations" ->
            [type : {"partOf", "contains", NoneQ}, objectId : {<<"2">>, NoneV}]
      [] property_name = "translations" ->
            [lang : {"de", NoneQ}, value : {<<"g">>, <<>>, NoneV}]
      [] property_name = "dates" ->
            {PassportNode(type, value, <<>>) :
                type \in {"beginning", "end"}, value \in {<<"-", "5">>, NoneV}}

FieldLists(property_name, n) ==
    UNION {[1..m -> FieldItems(property_name)] : m \in 0..n}

\* the passports that hold the leaves: under thesaurus_date and main_group,
\* under groups of other labels, one level higher and one level deeper
Passports(leaves) ==
    { PassportNode(NoneQ, NoneV,
        << PassportNode(td, NoneV, << PassportNode(mg, NoneV, leaves) >>) >>) :
            td \in {"thesaurus_date", "other"}, mg \in {"main_group", "other"} }
    \cup { PassportNode(NoneQ, NoneV, << PassportNode("thesaurus_date", NoneV, leaves) >>),
           PassportNode(NoneQ, NoneV,
             << PassportNode("thesaurus_date", NoneV,
                 << PassportNode("main_group", NoneV,
                     << PassportNode("group", NoneV, leaves) >>) >>) >>) }

\* the passport of the doctest of get_ths_entry_dates
DatePassport(leaves) ==
    PassportNode(NoneQ, NoneV,
        << PassportNode("thesaurus_date", NoneV,
            << PassportNode("main_group", NoneV, leaves) >>) >>)

\* the records with id _id that hold at most n items
Records(property_name, _id, n) ==
    CASE property_name = "relations" ->
            { [_id |-> _id], [_id |-> _id, relations |-> Null] }
            \cup { [_id |-> _id, relations |-> List(items)] :
                        items \in FieldLists(property_name, n) }
      [] property_name = "translations" ->
            { [_id |-> _id], [_id |-> _id, translations |-> [null |-> TRUE]],
              [_id |-> _id, translations |-> [null |-> FALSE]],
              [_id |-> _id, translations |-> [null |-> FALSE, translations |-> Null]] }
            \cup { [_id |-> _id,
                    translations |-> [null |-> FALSE, translations |-> List(items)]] :
                        items \in FieldLists(property_name, n) }
      [] property_name = "dates" ->
            { [_id |-> _id, type |-> "date"] }
            \cup UNION { { [_id |-> _id, type |-> "date", passport |-> p] :
                                p \in Passports(leaves) }
                         \cup { [_id |-> _id, type |-> "person",
                                 passport |-> DatePassport(leaves)] } :
                         leaves \in FieldLists(property_name, n) }

\* the number of items a record holds
RECURSIVE Leaves(_)
Leaves(node) ==
    IF node.children = <<>> THEN IF node.type \in {"beginning", "end"} THEN 1 ELSE 0
    ELSE LET counts == [i \in 1..Len(node.children) |-> Leaves(node.children[i])]
             Sum[i \in 0..Len(counts)] == IF i = 0 THEN 0 ELSE Sum[i - 1] + counts[i]
         IN  Sum[Len(counts)]

Fields(property_name, bts_entry) ==
    CASE property_name = "relations" ->
            Len(RecordGet(bts_entry, "relations", Null).items)
      [] property_name = "translations" ->
            Len(RecordGet(RecordGet(bts_entry, "translations", [null |-> TRUE]),
                          "translations", Null).items)
      [] property_name = "dates" ->
            Leaves(RecordGet(bts_entry, "passport", PassportNode(NoneQ, NoneV, <<>>)))

\* apply_functions with the one extract function of the run
apply_functions(property_name, bts_entry) ==
    CASE property_name = "relations" -> get_relations(bts_entry)
      [] property_name = "translations" -> get_translations(bts_entry)
      [] property_name = "dates" ->
            [raised |-> FALSE, v |-> get_ths_entry_dates(bts_entry)]

InitExtract ==
    /\ pc = "load"
    /\ insertion \in {"relations", "translations", "dates"}
    /\ dump = <<>>
    /\ given = <<>> /\ stripped = <<>>
    /\ vocab = <<>>
    /\ budget = MaxFields
    /\ vocab0 = <<>>
    /\ functions = << "fill_in_missing_dateranges" >>
    /\ ei = 1 /\ fi = 1 /\ log = <<>>
    /\ tree = <<>>
    /\ run = 0 /\ work = <<>> /\ w = 1 /\ stats = NoStats
    /\ tree0 = <<>> /\ tree1 = <<>> /\ file = <<>>
    /\ vi = 1 /\ invalid = <<>>

\* load_vocabulary: json.load reads the next record
LoadRecord ==
    /\ pc = "load"
    /\ Len(dump) < Len(RecordIds(insertion))
    /\ \E bts_entry \in Records(insertion, RecordIds(insertion)[Len(dump) + 1], budget) :
          /\ dump' = Append(dump, bts_entry)
          /\ budget' = budget - Fields(insertion, bts_entry)
    /\ UNCHANGED <<pc, vocab, vocab0, functions, ei, fi, log, tree, mergeVars,
                   validateVars, idVars>>

\* init_vocab: apply_functions on the next record; the extract function may raise
ExtractEntry ==
    /\ pc = "load"
    /\ Len(dump) = Len(RecordIds(insertion))
    /\ Len(vocab) < Len(dump)
    /\ LET bts_entry == dump[Len(vocab) + 1]
           r == apply_functions(insertion, bts_entry)
       IN  IF r.raised
           THEN pc' = "failed" /\ vocab' = vocab
           ELSE /\ vocab' = Append(vocab, [k |-> bts_entry._id, v |-> r.v])
                /\ pc' = IF Len(vocab) + 1 = Len(dump) THEN "extracted" ELSE pc
    /\ UNCHANGED <<budget, vocab0, repairVars, tree, mergeVars, validateVars, idVars>>

\* patch_vocab is entered with the registry of the thesaurus
BackFill ==
    /\ pc = "extracted"
    /\ insertion = "dates"
    /\ pc' = "patch"
    /\ vocab0' = vocab
    /\ ei' = 1
    /\ fi' = 1
    /\ UNCHANGED <<vocab, functions, budget, log, dump, tree, mergeVars, validateVars, idVars>>

NextExtract == LoadRecord \/ ExtractEntry \/ BackFill \/ ApplyPass

SpecExtract == InitExtract /\ [][NextExtract]_vars

----------------------------------------------------------------------------
(* Claims about the extraction run *)

Dates(registry, _id) == DictGet(DictGet(registry, _id, <<>>), "dates", <<>>)

\* no value under either boundary
Unset(dates) == \A i \in 1..Len(dates) : dates[i].v = <<>>

Amended(_id) ==
    << [k |-> "beginning", v |-> << DictGet(missing_dateranges, _id, <<>>)[1] >>],
       [k |-> "end", v |-> << DictGet(missing_dateranges, _id, <<>>)[2] >>] >>

\* C14: once the registry of the thesaurus is patched, an entry whose id is
\* in missing_dateranges has the dates of the table if none were extracted
\* for it, and every other entry has the dates that were extracted for it.
BackFillOnlyUnset ==
    (pc = "patched" /\ insertion = "dates") =>
        \A _id \in DictKeys(vocab0) :
            IF DictHas(missing_dateranges, _id) /\ Unset(Dates(vocab0, _id))
            THEN Dates(vocab, _id) = Amended(_id)
            ELSE Dates(vocab, _id) = Dates(vocab0, _id)

\* the items of the record's list as (qualifier, value) pairs
Pairs19(property_name, bts_entry) ==
    IF property_name = "relations"
    THEN LET items == RecordGet(bts_entry, "relations", List(<<>>)).items
         IN  [i \in 1..Len(items) |-> [q |-> items[i].type, v |-> items[i].objectId]]
    ELSE LET items == RecordGet(RecordGet(bts_entry, "translations", [null |-> FALSE]),
                                "translations", List(<<>>)).items
         IN  [i \in 1..Len(items) |-> [q |-> items[i].lang, v |-> items[i].value]]

\* the item has a qualifier and a value (None and '' are none)
Complete(pair) == pair.q \notin {NoneQ, ""} /\ pair.v \notin {NoneV, <<>>}

\* the list field of the record is null, not absent and not a list
NullField(property_name, bts_entry) ==
    IF property_name = "relations"
    THEN RecordGet(bts_entry, "relations", List(<<>>)).null
    ELSE \/ RecordGet(bts_entry, "translations", [null |-> FALSE]).null
         \/ RecordGet(RecordGet(bts_entry, "translations", [null |-> FALSE]),
                      "translations", List(<<>>)).null

PathValues(passport, key) ==
    LET Labelled(nodes, label) == SelectSeq(nodes, LAMBDA n : n.type = label)
        tds == Labelled(passport.children, "thesaurus_date")
        mgs == Flatten([i \in 1..Len(tds) |-> Labelled(tds[i].children, "main_group")])
        leaves == Flatten([i \in 1..Len(mgs) |-> Labelled(mgs[i].children, key)])
        valued == SelectSeq(leaves, LAMBDA n : TruthyV(n.value))
    IN  [i \in 1..Len(valued) |-> valued[i].value]

\* C20: the dates extracted from a record of type date are, for each
\* boundary, exactly the values of the nodes labelled with it that the path
\* thesaurus_date, main_group leads to from the root of the passport.
PassportPath ==
    (insertion = "dates" /\ pc \in {"load", "extracted"}) =>
        \A i \in 1..Len(vocab) :
            RecordGet(dump[i], "type", NoneQ) = "date" =>
                \A key \in {"beginning", "end"} :
                    DictGet(DictGet(vocab[i].v, "dates", <<>>), key, <<>>)
                        = PathValues(RecordGet(dump[i], "passport",
                                        PassportNode(NoneQ, NoneV, <<>>)), key)

----------------------------------------------------------------------------
(* More claims about the validation run *)

\* document order of two nodes: an ancestor before its descendants, an elder
\* sibling's subtree before a younger one's
RECURSIVE Precedes(_, _)
Precedes(p, q) ==
    IF p = <<>> THEN q # <<>>
    ELSE IF q = <<>> THEN FALSE
    ELSE IF Head(p) = Head(q) THEN Precedes(Tail(p), Tail(q))
    ELSE Head(p) < Head(q)

\* the categories with date range information, those get_dates selects: a
\* date in the category or in a category below it
Dateful == {node \in Categories : css_select(tree, node, DateSelector) # <<>>}

\* C15: find_invalid returns the categories with date range information of
\* which is_valid is false, each once and in document order, and nothing
\* else (it raises if is_valid raises for one of the categories with date
\* range information); a second call on the same document returns the same.
FindInvalidExact ==
    /\ pc = "failed" => \E node \in Dateful : is_valid(tree, node).raised
    /\ pc = "found" =>
        /\ \A node \in Dateful : ~is_valid(tree, node).raised
        /\ Range(invalid) = {node \in Dateful : ~is_valid(tree, node).v}
        /\ \A i, j \in 1..Len(invalid) : i < j => Precedes(invalid[i], invalid[j])
        /\ invalid = SelectSeq(get_dates(tree0), LAMBDA node : ~is_valid(tree0, node).v)

\* the second call of find_invalid has returned two of three categories
FindInvalidExactWitness ==
    /\ pc = "found"
    /\ run = 1
    /\ Len(work) = 3
    /\ Len(invalid) = 2

\* the dates directly attached to a category: ./catDesc/date
OwnDates(doc, node) ==
    Flatten([i \in 1..Len(xpath_children(doc, node, Step("catDesc", NoAttrs))) |->
        xpath_children(doc, xpath_children(doc, node, Step("catDesc", NoAttrs))[i],
                       Step("date", NoAttrs))])

\* C16: daterange of a category is the range from the from and to of the date
\* directly attached to it (where both are numbers), and (0, 0) if no date is
\* directly attached to it.
OwnRangeOrZero ==
    Ended =>
        \A node \in Categories :
            LET own == OwnDates(tree, node)
                range == daterange(tree, node)
            IN  IF own = <<>> THEN ~range.raised /\ range.v = <<0, 0>>
                ELSE LET from == int(attributes_get(NodeAt(tree, own[1]), "from"))
                         to == int(attributes_get(NodeAt(tree, own[1]), "to"))
                     IN  (~from.raised /\ ~to.raised) =>
                            (~range.raised /\ range.v = <<from.v, to.v>>)

ExampleChecked == Ended /\ tree = ExampleThesaurus

\* C17 as stated: in the example child_range of the category is (-900, -1)
\* and is_valid is false.
ExampleRangeOfChildren ==
    ExampleChecked =>
        /\ child_range(tree, <<1>>).v = <<0 - 900, 0 - 1>>
        /\ ~is_valid(tree, <<1>>).v

\* C17: for the category from -600 to 0 with two leaf children from -900 to
\* -700 and from -50 to -1, child_range is (-900, 0), the own end 0 being the
\* greatest end, is_valid is false and find_invalid returns the category alone.
ExampleRange ==
    ExampleChecked =>
        /\ daterange(tree, <<1>>).v = <<0 - 600, 0>>
        /\ child_range(tree, <<1, 2>>).v = <<0 - 900, 0 - 700>>
        /\ child_range(tree, <<1, 3>>).v = <<0 - 50, 0 - 1>>
        /\ child_range(tree, <<1>>).v = <<0 - 900, 0>>
        /\ ~is_valid(tree, <<1>>).v
        /\ pc = "found" /\ invalid = << <<1>> >>

ExampleRangeWitness ==
    /\ ExampleChecked
    /\ pc = "found"
    /\ Len(work) = 3
    /\ invalid = << <<1>> >>

\* a from or to of the date directly attached to the category is no integer
NonNumeric(doc, node) ==
    /\ OwnDates(doc, node) # <<>>
    /\ \/ int(attributes_get(NodeAt(doc, OwnDates(doc, node)[1]), "from")).raised
       \/ int(attributes_get(NodeAt(doc, OwnDates(doc, node)[1]), "to")).raised

\* C18: a category whose date has a from or to that is no integer does not
\* end the run without a result: find_invalid returns, and the category is
\* among the categories it reports.
NonNumericReported ==
    Ended =>
        \A node \in Categories :
            NonNumeric(tree, node) => (pc = "found" /\ node \in Range(invalid))

----------------------------------------------------------------------------
(* inserters.py: _strip_id on the ids it may be given, and claims about it *)

\* the longest string _strip_id is called with
MaxIdLen == 5

\* the strings _strip_id is called with: of the letters of the prefix and
\* of two digits
IdChars == {"t", "l", "a", "1", "2"}

Ids == UNION {[1..n -> IdChars] : n \in 0..MaxIdLen}

InitIds ==
    /\ pc = "strip"
    /\ given \in Ids
    /\ stripped = <<>>
    /\ vocab = <<>> /\ budget = 0 /\ vocab0 = <<>>
    /\ functions = <<>> /\ ei = 1 /\ fi = 1 /\ log = <<>>
    /\ insertion = "relations" /\ run = 0 /\ work = <<>> /\ w = 1 /\ stats = NoStats
    /\ tree = <<>> /\ tree0 = <<>> /\ tree1 = <<>> /\ file = <<>>
    /\ vi = 1 /\ invalid = <<>>
    /\ dump = <<>>

\* _strip_id(aedid) returns
StripId ==
    /\ pc = "strip"
    /\ stripped' = _strip_id(given)
    /\ pc' = "stripped"
    /\ UNCHANGED <<given, vocab, budget, vocab0, tree, repairVars, mergeVars, validateVars>>

NextIds == StripId

SpecIds == InitIds /\ [][NextIds]_vars

IsDigits(str) == \A i \in 1..Len(str) : str[i] \in Range(Digits)

HasPrefix(str) == Len(str) >= Len(tla) /\ SubSeq(str, 1, Len(tla)) = tla

\* C21: _strip_id of the prefix 'tla' followed by digits is the digits, and
\* _strip_id of a string that does not start with 'tla' is the string itself.
StripPrefix ==
    pc = "stripped" =>
        /\ (HasPrefix(given) /\ IsDigits(SubSeq(given, Len(tla) + 1, Len(given))))
                => stripped = SubSeq(given, Len(tla) + 1, Len(given))
        /\ ~HasPrefix(given) => stripped = given

----------------------------------------------------------------------------
(* More claims about the merge run *)

\* the catDesc children of a category
Descriptions(doc, e) == xpath_children(doc, e, Step("catDesc", NoAttrs))

\* a boundary of the date directly attached to a category, None without one
Boundary(doc, e, attribute) ==
    IF OwnDates(doc, e) = <<>> THEN NoneV
    ELSE attributes_get(NodeAt(doc, OwnDates(doc, e)[1]), attribute)

\* TargetDef.update is about to call _add_daterange on a category
AddsDaterange ==
    /\ insertion = "dates"
    /\ AtItem
    /\ ~has_property(insertion, tree, work[w].entry, work[w].type, work[w].value)

\* C22: every call of _add_daterange on a category that was loaded without a
\* catDesc leaves the category with exactly one catDesc child that holds
\* exactly one date, and with the boundary it does not write as it was.
DateRangeShape ==
    [][ AddsDaterange =>
            LET e == work[w].entry
                other == IF work[w].type = "beginning" THEN "to" ELSE "from"
            IN  /\ Descriptions(tree0, e) = <<>> =>
                      /\ Len(Descriptions(tree', e)) = 1
                      /\ Len(OwnDates(tree', e)) = 1
                /\ Boundary(tree', e, other) = Boundary(tree, e, other) ]_vars

----------------------------------------------------------------------------
(* Claims about zero boundaries and about the aggregate *)

\* C23: a category whose own range (s, e) has s <= e, is not (0, 0) and
\* contains its child_range is valid, also when one of s and e is 0.
OnlySentinelTrivial ==
    Ended =>
        \A node \in Categories :
            LET own == daterange(tree, node)
                rec == child_range(tree, node)
            IN  (/\ ~own.raised /\ ~rec.raised
                 /\ own.v[1] <= own.v[2]
                 /\ own.v # <<0, 0>>
                 /\ own.v[1] <= rec.v[1] /\ rec.v[2] <= own.v[2])
                => (~is_valid(tree, node).raised /\ is_valid(tree, node).v)

----------------------------------------------------------------------------
(* More claims about the relation graph repair *)

\* some relation list of the registry holds an id twice
Duplicated(wlist) ==
    \E e \in DictKeys(wlist) :
        \E predicate \in DictKeys(Relations(wlist, e)) :
            \E i, j \in 1..Len(Targets(wlist, e, predicate)) :
                /\ i < j
                /\ Targets(wlist, e, predicate)[i] = Targets(wlist, e, predicate)[j]

\* C24: if no relation list of the extracted registry holds an id twice,
\* none does after patch_vocab with [_verify_relations, _mirror_relations].
NoDuplicateEdges ==
    (pc = "patched" /\ functions = VerifyMirror /\ ~Duplicated(vocab0))
        => ~Duplicated(vocab)

\* every predicate of the registry has an inverse
AllMapped(wlist) ==
    \A e \in DictKeys(wlist) :
        \A predicate \in DictKeys(Relations(wlist, e)) : DictHas(INVERSE, predicate)

\* the passes applied sweep by sweep: pass f to every entry from e on, then
\* the next pass to every entry
RECURSIVE SweepFrom(_, _, _, _)
SweepFrom(r, funcs, f, e) ==
    IF r.raised \/ f > Len(funcs) THEN r
    ELSE IF e > Len(r.wlist) THEN SweepFrom(r, funcs, f + 1, 1)
    ELSE SweepFrom(PatchStep(r.wlist, r.wlist[e].k, funcs[f]), funcs, f, e + 1)

SweepResult(wlist, funcs) == SweepFrom([wlist |-> wlist, raised |-> FALSE], funcs, 1, 1)

\* C25: on a registry whose predicates all have an inverse, patch_vocab with
\* [_verify_relations, _mirror_relations], all passes on an entry before the
\* next entry, ends with the registry that verifying every entry and then
\* mirroring every entry ends with: same keys, same lists, same order.
PerEntryEqualsSweep ==
    (pc = "patched" /\ functions = VerifyMirror /\ AllMapped(vocab0))
        => /\ ~SweepResult(vocab0, VerifyMirror).raised
           /\ vocab = SweepResult(vocab0, VerifyMirror).wlist

\* C25 witness: the repair completed on a registry whose first entry points
\* at the second and whose second entry points at an unknown id, so the
\* first entry was mirrored into the second before the second was verified.
PerEntryEqualsSweepWitness ==
    /\ pc = "patched" /\ functions = VerifyMirror /\ AllMapped(vocab0)
    /\ HasEdge(vocab0, DumpOrder[1], "partOf", DumpOrder[2])
    /\ HasEdge(vocab0, DumpOrder[2], "partOf", UnknownId)
    /\ HasEdge(vocab, DumpOrder[2], "contains", DumpOrder[1])
    /\ ~HasEdge(vocab, DumpOrder[2], "partOf", UnknownId)

\* range a holds range b
Holds(a, b) == a[1] <= b[1] /\ b[2] <= a[2]

\* C26: child_range of a category holds the category's own range and
\* child_range of each of its child categories (where all of them can be
\* computed), so is_valid is true of a category only if its child_range is
\* its own range.
AggregateMonotone ==
    Ended =>
        \A node \in Categories :
            LET children == xpath_children(tree, node, Step("category", NoAttrs))
                own == daterange(tree, node)
                rec == child_range(tree, node)
                valid == is_valid(tree, node)
            IN  /\ ~rec.raised =>
                      /\ ~own.raised /\ Holds(rec.v, own.v)
                      /\ \A i \in 1..Len(children) :
                            /\ ~child_range(tree, children[i]).raised
                            /\ Holds(rec.v, child_range(tree, children[i]).v)
                /\ (~valid.raised /\ valid.v) => (~rec.raised /\ rec.v = own.v)

\* find_invalid has returned a category whose child_range goes beyond its
\* own range on both sides, because of its two children, which are valid
\* themselves
AggregateMonotoneWitness ==
    /\ pc = "found"
    /\ \E node \in Range(invalid) :
          LET children == xpath_children(tree, node, Step("category", NoAttrs))
              own == daterange(tree, node)
              rec == child_range(tree, node)
          IN  /\ Len(children) = 2
              /\ rec.v[1] < own.v[1] /\ own.v[2] < rec.v[2]
              /\ rec.v[1] = child_range(tree, children[1]).v[1]
              /\ rec.v[2] = child_range(tree, children[2]).v[2]
              /\ \A i \in 1..2 : is_valid(tree, children[i]).v

----------------------------------------------------------------------------
(* Claims about duplicates in the merged document *)

\* no two elements of a sequence are equal
Distinct(seq) == \A i, j \in 1..Len(seq) : i # j => seq[i] # seq[j]

\* the targets of the ref children of an xr wrapper
RefTargets(doc, xr) ==
    [i \in 1..Len(xpath_children(doc, xr, Step("ref", NoAttrs))) |->
        attributes_get(NodeAt(doc, xpath_children(doc, xr, Step("ref", NoAttrs))[i]),
                       "target")]

\* the translations of an entry: language and quoted text of every cit of
\* its senses
Citations(doc, e) ==
    Flatten([i \in 1..Len(xpath_children(doc, e, Step("sense", NoAttrs))) |->
        LET sense == xpath_children(doc, e, Step("sense", NoAttrs))[i]
            cits == xpath_children(doc, sense, Step("cit", NoAttrs))
        IN  [j \in 1..Len(cits) |->
                << NodeAt(doc, cits[j]).attrs,
                   [n \in 1..Len(xpath_children(doc, cits[j], Step("quote", NoAttrs))) |->
                       NodeAt(doc, xpath_children(doc, cits[j],
                                                  Step("quote", NoAttrs))[n]).text] >>]])

\* an entry holds no reference twice under one xr wrapper and no
\* translation twice
NoDuplicates(doc, e) ==
    /\ \A i \in 1..Len(xpath_children(doc, e, Step("xr", NoAttrs))) :
          Distinct(RefTargets(doc, xpath_children(doc, e, Step("xr", NoAttrs))[i]))
    /\ Distinct(Citations(doc, e))

\* a call of TargetDef.update has gone through all it iterates
RunEnded == pc \in {"update", "updated"} /\ w > Len(work)

\* C27: an entry that was loaded without two equal ref children under one xr
\* wrapper and without two equal translations has none when a merge run has
\* ended, whatever the registry lists, the same value twice under a
\* qualifier included.
MergeNoDuplicates ==
    (insertion \in {"relations", "translations"} /\ RunEnded /\ tree # tree0) =>
        \A i \in 1..Len(get_elements(tree0, "entry")) :
            LET e == get_elements(tree0, "entry")[i]
            IN  NoDuplicates(tree0, e) => NoDuplicates(tree, e)

\* the first merge run has ended; the registry lists entry 2 twice under
\* partOf for entry 1, which was loaded without relations and now holds one
\* xr with the one ref
MergeNoDuplicatesWitness ==
    /\ insertion = "relations"
    /\ pc = "update" /\ run = 1 /\ w > Len(work)
    /\ DictGet(DictGet(DictGet(vocab, DumpIds[1], <<>>), "relations", <<>>),
               "partOf", <<>>) = << <<"2">>, <<"2">> >>
    /\ LET e == get_elements(tree0, "entry")[1]
       IN  /\ xpath_children(tree0, e, Step("xr", NoAttrs)) = <<>>
           /\ Len(xpath_children(tree, e, Step("xr", NoAttrs))) = 1
           /\ RefTargets(tree, xpath_children(tree, e, Step("xr", NoAttrs))[1])
                 = << tla \o <<"2">> >>

====
